---- MODULE Spec2Model ----
(***************************************************************************)
(* State-machine model of the browser-rts client core (client/src/lib.rs): *)
(* the Renderer's camera, input handlers, box selection and the commands   *)
(* it hands back to its JavaScript caller.                                 *)
(*                                                                         *)
(* Numbers.  Every f64 of the source is a fixed-point integer counted in   *)
(* 1/Unit: 1.0 is Unit, 0.9 is 90, 25.0 is 2500.  A quotient or product is *)
(* rounded to the nearest 1/Unit, as f64 rounds to the nearest double.     *)
(* Pixel coordinates (client_x - rect.left) are whole numbers of pixels.   *)
(***************************************************************************)
EXTENDS Integers, Sequences, FiniteSets, TLC

VARIABLES
    \* ---- fields of struct Renderer ----
    camera_x, camera_y, zoom,
    is_dragging, last_mouse_x, last_mouse_y,
    player_id, game_state, dev_data, show_dev_tools,
    selection_start, selection_end, selected_troops,
    \* ---- what the JavaScript caller observes ----
    op,        \* name of the handler that ran last
    arg,       \* the payload of an ingest, the delta of a wheel step, the MouseEvent
               \* of a button press, a move, a click or a right click (Option)
    ret,       \* its return value (Option of a command, or of an error)
    issued,    \* the MoveCommand object the caller still holds (Option)
    \* ---- history ----
    pre,       \* the selection fields as handle_mouse_up found them
    gesture,   \* the pointer gesture in progress and the selection it began with
    views      \* number of events so far that changed the view (wheel steps, pan moves)

prog == <<camera_x, camera_y, zoom, is_dragging, last_mouse_x, last_mouse_y,
          player_id, game_state, dev_data, show_dev_tools,
          selection_start, selection_end, selected_troops>>

vars == <<camera_x, camera_y, zoom, is_dragging, last_mouse_x, last_mouse_y,
          player_id, game_state, dev_data, show_dev_tools,
          selection_start, selection_end, selected_troops,
          op, arg, ret, issued, pre, gesture, views>>

----------------------------------------------------------------------------
(* Option<T>: None is the empty sequence, Some(v) the one-element sequence *)

None == <<>>

Some(v) == <<v>>

IsSome(o) == o # <<>>

Unwrap(o) == o[1]

----------------------------------------------------------------------------
(* f64 arithmetic at resolution 1/Unit *)

Unit == 100

Abs(n) == IF n >= 0 THEN n ELSE -n

Min2(a, b) == IF a <= b THEN a ELSE b

Max2(a, b) == IF a >= b THEN a ELSE b

\* n / d rounded to the nearest integer, symmetric in the sign of n (d > 0)
Round(n, d) == IF n >= 0 THEN (2 * n + d) \div (2 * d)
                         ELSE -((2 * (-n) + d) \div (2 * d))

\* a / b and a * b on fixed-point operands
FDiv(a, b) == Round(a * Unit, b)

FMul(a, b) == Round(a * b, Unit)

\* a whole number (pixels, an integer literal) as f64
F(n) == n * Unit

----------------------------------------------------------------------------
(* Program constants, in 1/Unit *)

InitialZoom == 100

ZoomOutFactor == 90

ZoomInFactor == 110

MinZoom == 20

MaxZoom == 500

SelectionRadius == 1000

MinSelectionArea == 2500

SpawnCount == 15

----------------------------------------------------------------------------
(* Bounds of the model *)

\* view-changing events (wheel steps, pan moves) per run of Spec and SpecKeep
MaxView == 1

\* view-changing events per run of SpecView
MaxViewCmd == 2

----------------------------------------------------------------------------
(* Inputs *)

\* struct Player and struct Troop, reduced to the fields the handlers read
Player(i, px, py) == [id |-> i, position |-> <<F(px), F(py)>>]

Troop(i, owner, px, py) == [id |-> i, player_id |-> owner, position |-> <<F(px), F(py)>>]

\* struct GameState: two snapshots the server may send.  In the second,
\* player 1 and troop 1 are gone and troop 3 has changed hands.
GameStateA == [players |-> <<Player(1, 0, 0), Player(2, 10, 10)>>,
               troops  |-> <<Troop(1, 1, 5, 5), Troop(2, 1, 10, 10), Troop(3, 2, 5, 5)>>,
               map_size |-> <<F(100), F(100)>>]

GameStateB == [players |-> <<Player(2, 5, 5)>>,
               troops  |-> <<Troop(2, 1, 50, 50), Troop(3, 1, 6, 8)>>,
               map_size |-> <<F(200), F(200)>>]

GameStates == {GameStateA, GameStateB}

\* a snapshot that lists one troop id twice; serde accepts it
GameStateC == [players |-> <<Player(1, 0, 0)>>,
               troops  |-> <<Troop(4, 1, 5, 5), Troop(4, 1, 8, 8)>>,
               map_size |-> <<F(100), F(100)>>]

\* struct DevData
DevDataA == [fps |-> F(60), player_count |-> 2, troop_count |-> 3]

DevDataB == [fps |-> F(30), player_count |-> 1, troop_count |-> 2]

DevDatas == {DevDataA}

\* A JsValue handed to update_game_state / update_dev_data: the properties
\* the object has, and the values they carry.
GameStateFields == {"players", "troops", "projectiles", "map_size"}

DevDataFields == {"fps", "player_count", "troop_count", "troops_by_player"}

JsObject(fields, value) == [fields |-> fields, value |-> value]

GameStatePayloads ==
    {JsObject(GameStateFields, g) : g \in GameStates}
        \cup {JsObject(GameStateFields \ {"troops"}, GameStateB)}

DevDataPayloads ==
    {JsObject(DevDataFields, d) : d \in DevDatas}
        \cup {JsObject(DevDataFields \ {"fps"}, DevDataA)}

PlayerIds == {1, 2}

\* MouseEvent: button, alt_key and the pointer position relative to the
\* canvas (client_x - rect.left, client_y - rect.top), in pixels
MouseEvent(b, alt, px, py) == [button |-> b, alt_key |-> alt, x |-> px, y |-> py]

ScreenPoints == {<<0, 0>>, <<5, 5>>, <<10, 10>>}

Buttons == {0, 2}

MouseEvents == {MouseEvent(b, a, p[1], p[2]) : b \in Buttons, a \in BOOLEAN, p \in ScreenPoints}

\* events whose button and modifier the handler does not read
PlainEvents == {MouseEvent(0, FALSE, p[1], p[2]) : p \in ScreenPoints}

WheelDeltas == {-120, 0, 120}

----------------------------------------------------------------------------
(* Helpers of the handlers *)

\* a deserializer that accepts an object whatever properties it lacks
from_value_lenient(js, fields) == [ok |-> TRUE, value |-> js.value]

\* serde_wasm_bindgen::from_value: Ok(value) when every field of the struct
\* is present, Err otherwise
from_value(js, fields) ==
    IF fields \subseteq js.fields THEN [ok |-> TRUE, value |-> js.value]
                                  ELSE [ok |-> FALSE, value |-> js.value]

\* a conversion that forgets the camera offset
world_x_no_camera(x) == FDiv(F(x), zoom)

\* x / self.zoom + self.camera_x
world_x(x) == FDiv(F(x), zoom) + camera_x

\* a conversion that forgets the zoom
world_y_no_zoom(y) == F(y) + camera_y

\* y / self.zoom + self.camera_y
world_y(y) == FDiv(F(y), zoom) + camera_y

\* a camera step that forgets the zoom
pan_delta_unscaled(d) == F(d)

\* dx / self.zoom
pan_delta(d) == FDiv(F(d), zoom)

\* a test that takes every move outside a pan for a drag of the box
is_selecting_always == TRUE

\* self.selection_start.is_some()
is_selecting == IsSome(selection_start)

\* the ids of a sequence of troops, in order
RECURSIVE TroopIds(_)
TroopIds(troops) ==
    IF troops = <<>> THEN <<>>
    ELSE <<Head(troops).id>> \o TroopIds(Tail(troops))

Contains(seq, v) == \E i \in 1..Len(seq) : seq[i] = v

\* a hit test that forgets to ask whether the troop is selected
is_clicking_any_troop(wx, wy) ==
    /\ IsSome(game_state)
    /\ \E i \in 1..Len(Unwrap(game_state).troops) :
          LET troop == Unwrap(game_state).troops[i]
              dx == wx - troop.position[1]
              dy == wy - troop.position[2]
          IN  dx * dx + dy * dy < SelectionRadius * SelectionRadius

\* a hit test that counts a troop at the radius itself
is_clicking_selected_troop_at_radius(wx, wy) ==
    /\ IsSome(game_state)
    /\ \E i \in 1..Len(Unwrap(game_state).troops) :
          LET troop == Unwrap(game_state).troops[i]
              dx == wx - troop.position[1]
              dy == wy - troop.position[2]
          IN  /\ Contains(selected_troops, troop.id)
              /\ dx * dx + dy * dy <= SelectionRadius * SelectionRadius

\* (dx * dx + dy * dy).sqrt() < 10.0, decided on the squares (sqrt is monotone)
is_clicking_selected_troop(wx, wy) ==
    /\ IsSome(game_state)
    /\ \E i \in 1..Len(Unwrap(game_state).troops) :
          LET troop == Unwrap(game_state).troops[i]
              dx == wx - troop.position[1]
              dy == wy - troop.position[2]
          IN  /\ Contains(selected_troops, troop.id)
              /\ dx * dx + dy * dy < SelectionRadius * SelectionRadius

\* a test that forgets the owner
is_in_box_any_owner(troop, pid, min_x, min_y, max_x, max_y) ==
    /\ troop.position[1] >= min_x
    /\ troop.position[1] <= max_x
    /\ troop.position[2] >= min_y
    /\ troop.position[2] <= max_y

\* troop.player_id == player_id, then x >= min_x && x <= max_x && y >= min_y && y <= max_y
is_own_troop_in_box(troop, pid, min_x, min_y, max_x, max_y) ==
    /\ troop.player_id = pid
    /\ troop.position[1] >= min_x
    /\ troop.position[1] <= max_x
    /\ troop.position[2] >= min_y
    /\ troop.position[2] <= max_y

\* a selection that runs on the snapshot alone and, with no player bound,
\* takes the troops of every owner
select_troops_in_box_unbound(min_x, min_y, max_x, max_y) ==
    IF IsSome(game_state)
    THEN TroopIds(SelectSeq(Unwrap(game_state).troops,
                            LAMBDA troop :
                                IF IsSome(player_id)
                                THEN is_own_troop_in_box(troop, Unwrap(player_id),
                                                         min_x, min_y, max_x, max_y)
                                ELSE is_in_box_any_owner(troop, 0,
                                                         min_x, min_y, max_x, max_y)))
    ELSE selected_troops

\* a selection that pushes onto the previous one instead of clearing it first
select_troops_in_box_no_clear(min_x, min_y, max_x, max_y) ==
    IF IsSome(game_state) /\ IsSome(player_id)
    THEN selected_troops \o
         TroopIds(SelectSeq(Unwrap(game_state).troops,
                            LAMBDA troop :
                                is_own_troop_in_box(troop, Unwrap(player_id),
                                                    min_x, min_y, max_x, max_y)))
    ELSE selected_troops

\* the value of self.selected_troops after select_troops_in_box
select_troops_in_box(min_x, min_y, max_x, max_y) ==
    IF IsSome(game_state) /\ IsSome(player_id)
    THEN TroopIds(SelectSeq(Unwrap(game_state).troops,
                            LAMBDA troop :
                                is_own_troop_in_box(troop, Unwrap(player_id),
                                                    min_x, min_y, max_x, max_y)))
    ELSE selected_troops

\* a threshold that lets a box of exactly the minimum area through
is_large_enough_inclusive(selection_size) == selection_size >= MinSelectionArea * Unit

\* selection_size > 25.0; selection_size is a product, counted in 1/Unit^2
is_large_enough(selection_size) == selection_size > MinSelectionArea * Unit

\* a factor that zooms out on a wheel event without vertical movement
zoom_factor_out_at_zero(delta_y) == IF delta_y >= 0 THEN ZoomOutFactor ELSE ZoomInFactor

\* if event.delta_y() > 0.0 { 0.9 } else { 1.1 }
zoom_factor(delta_y) == IF delta_y > 0 THEN ZoomOutFactor ELSE ZoomInFactor

\* a clamp that forgets the upper bound
clamp_zoom_below_only(z) == Max2(z, MinZoom)

\* self.zoom.max(0.2).min(5.0)
clamp_zoom(z) == Min2(Max2(z, MinZoom), MaxZoom)

\* an array that is a view of self.selected_troops instead of a copy
NewArrayView(elems) == [alias |-> TRUE, elems |-> elems]

\* a js_sys::Array built by pushing each element: it owns a copy of elems.
\* alias marks an array that would instead be a view of self.selected_troops.
NewArray(elems) == [alias |-> FALSE, elems |-> elems]

\* what the caller reads from an array now
ArrayElems(a) == IF a.alias THEN selected_troops ELSE a.elems

array_from_tuple(t) == <<t[1], t[2]>>

----------------------------------------------------------------------------
(* History kept beside the program state *)

NoGesture == [kind |-> "none", sel |-> <<>>]

\* the selection fields as the handler that is about to run finds them
Before == [start |-> selection_start, end |-> selection_end,
           sel |-> selected_troops, gesture |-> gesture]

NoBefore == [start |-> None, end |-> None, sel |-> <<>>, gesture |-> NoGesture]

\* the caller's record of one call: handler, argument, return value
Call(name, a, r) ==
    /\ op' = name
    /\ arg' = a
    /\ ret' = r
    /\ pre' = IF name = "handle_mouse_up" THEN Before ELSE NoBefore

----------------------------------------------------------------------------
(* Renderer::new *)

Init ==
    /\ camera_x = 0
    /\ camera_y = 0
    /\ zoom = InitialZoom
    /\ is_dragging = FALSE
    /\ last_mouse_x = 0
    /\ last_mouse_y = 0
    /\ player_id = None
    /\ game_state = None
    /\ dev_data = None
    /\ show_dev_tools = TRUE
    /\ selection_start = None
    /\ selection_end = None
    /\ selected_troops = <<>>
    /\ op = "new"
    /\ arg = None
    /\ ret = None
    /\ issued = None
    /\ pre = NoBefore
    /\ gesture = NoGesture
    /\ views = 0

----------------------------------------------------------------------------
(* The handlers.  Each leaves issued and views to the caller's side. *)

set_player_id(pid) ==
    /\ player_id' = Some(pid)
    /\ UNCHANGED <<camera_x, camera_y, zoom, is_dragging, last_mouse_x, last_mouse_y,
                   game_state, dev_data, show_dev_tools,
                   selection_start, selection_end, selected_troops>>
    /\ Call("set_player_id", None, None)
    /\ gesture' = NoGesture

\* an ingest that drops from the selection the ids the new snapshot lacks
update_game_state_pruning(state_js) ==
    LET parsed == from_value(state_js, GameStateFields) IN
    /\ game_state' = IF parsed.ok THEN Some(parsed.value) ELSE game_state
    /\ selected_troops' =
           IF parsed.ok
           THEN SelectSeq(selected_troops,
                          LAMBDA id : Contains(TroopIds(parsed.value.troops), id))
           ELSE selected_troops
    /\ UNCHANGED <<camera_x, camera_y, zoom, is_dragging, last_mouse_x, last_mouse_y,
                   player_id, dev_data, show_dev_tools,
                   selection_start, selection_end>>
    /\ Call("update_game_state", Some(state_js),
            IF parsed.ok THEN None ELSE Some([kind |-> "error"]))
    /\ gesture' = NoGesture

update_game_state(state_js) ==
    LET parsed == from_value(state_js, GameStateFields) IN
    /\ game_state' = IF parsed.ok THEN Some(parsed.value) ELSE game_state
    /\ UNCHANGED <<camera_x, camera_y, zoom, is_dragging, last_mouse_x, last_mouse_y,
                   player_id, dev_data, show_dev_tools,
                   selection_start, selection_end, selected_troops>>
    /\ Call("update_game_state", Some(state_js),
            IF parsed.ok THEN None ELSE Some([kind |-> "error"]))
    /\ gesture' = NoGesture

update_dev_data(data_js) ==
    LET parsed == from_value(data_js, DevDataFields) IN
    /\ dev_data' = IF parsed.ok THEN Some(parsed.value) ELSE dev_data
    /\ UNCHANGED <<camera_x, camera_y, zoom, is_dragging, last_mouse_x, last_mouse_y,
                   player_id, game_state, show_dev_tools,
                   selection_start, selection_end, selected_troops>>
    /\ Call("update_dev_data", Some(data_js),
            IF parsed.ok THEN None ELSE Some([kind |-> "error"]))
    /\ gesture' = NoGesture

toggle_dev_tools ==
    /\ show_dev_tools' = ~show_dev_tools
    /\ UNCHANGED <<camera_x, camera_y, zoom, is_dragging, last_mouse_x, last_mouse_y,
                   player_id, game_state, dev_data,
                   selection_start, selection_end, selected_troops>>
    /\ Call("toggle_dev_tools", None, None)
    /\ gesture' = NoGesture

handle_mouse_down(event) ==
    LET x == event.x
        y == event.y
        wx == world_x(x)
        wy == world_y(y)
    IN
    /\ IF event.button = 0
       THEN IF event.alt_key
            THEN /\ is_dragging' = TRUE
                 /\ last_mouse_x' = x
                 /\ last_mouse_y' = y
                 /\ UNCHANGED <<selection_start, selection_end, selected_troops>>
            ELSE /\ selection_start' = Some(<<wx, wy>>)
                 /\ selection_end' = Some(<<wx, wy>>)
                 /\ is_dragging' = FALSE
                 /\ selected_troops' = IF ~is_clicking_selected_troop(wx, wy)
                                       THEN <<>>
                                       ELSE selected_troops
                 /\ UNCHANGED <<last_mouse_x, last_mouse_y>>
       ELSE UNCHANGED <<is_dragging, last_mouse_x, last_mouse_y,
                        selection_start, selection_end, selected_troops>>
    /\ UNCHANGED <<camera_x, camera_y, zoom, player_id, game_state, dev_data, show_dev_tools>>
    /\ Call("handle_mouse_down", Some(event), None)
    /\ gesture' = IF event.button = 0
                  THEN [kind |-> IF event.alt_key THEN "pan" ELSE "box",
                        sel |-> selected_troops]
                  ELSE NoGesture

handle_mouse_move(event) ==
    LET x == event.x
        y == event.y
        wx == world_x(x)
        wy == world_y(y)
    IN
    /\ IF is_dragging
       THEN LET dx == x - last_mouse_x
                dy == y - last_mouse_y
            IN  /\ camera_x' = camera_x - pan_delta(dx)
                /\ camera_y' = camera_y - pan_delta(dy)
                /\ last_mouse_x' = x
                /\ last_mouse_y' = y
                /\ UNCHANGED selection_end
       ELSE IF is_selecting
            THEN /\ selection_end' = Some(<<wx, wy>>)
                 /\ UNCHANGED <<camera_x, camera_y, last_mouse_x, last_mouse_y>>
            ELSE UNCHANGED <<camera_x, camera_y, last_mouse_x, last_mouse_y, selection_end>>
    /\ UNCHANGED <<zoom, is_dragging, player_id, game_state, dev_data, show_dev_tools,
                   selection_start, selected_troops>>
    /\ Call("handle_mouse_move", Some(event), None)
    /\ gesture' = gesture

\* a handler that leaves the panning flag alone when no box was being dragged
handle_mouse_up_keeps_dragging(event) ==
    /\ IF IsSome(selection_start) /\ IsSome(selection_end)
       THEN LET start == Unwrap(selection_start)
                end == Unwrap(selection_end)
                min_x == Min2(start[1], end[1])
                max_x == Max2(start[1], end[1])
                min_y == Min2(start[2], end[2])
                max_y == Max2(start[2], end[2])
                selection_size == (max_x - min_x) * (max_y - min_y)
            IN  /\ selected_troops' =
                       IF is_large_enough(selection_size)
                       THEN select_troops_in_box(min_x, min_y, max_x, max_y)
                       ELSE selected_troops
                /\ selection_start' = None
                /\ selection_end' = None
                /\ is_dragging' = FALSE
       ELSE UNCHANGED <<selection_start, selection_end, selected_troops, is_dragging>>
    /\ UNCHANGED <<camera_x, camera_y, zoom, last_mouse_x, last_mouse_y,
                   player_id, game_state, dev_data, show_dev_tools>>
    /\ Call("handle_mouse_up", None, None)
    /\ gesture' = NoGesture

handle_mouse_up(event) ==
    /\ IF IsSome(selection_start) /\ IsSome(selection_end)
       THEN LET start == Unwrap(selection_start)
                end == Unwrap(selection_end)
                min_x == Min2(start[1], end[1])
                max_x == Max2(start[1], end[1])
                min_y == Min2(start[2], end[2])
                max_y == Max2(start[2], end[2])
                selection_size == (max_x - min_x) * (max_y - min_y)
            IN  /\ selected_troops' =
                       IF is_large_enough(selection_size)
                       THEN select_troops_in_box(min_x, min_y, max_x, max_y)
                       ELSE selected_troops
                /\ selection_start' = None
                /\ selection_end' = None
       ELSE UNCHANGED <<selection_start, selection_end, selected_troops>>
    /\ is_dragging' = FALSE
    /\ UNCHANGED <<camera_x, camera_y, zoom, last_mouse_x, last_mouse_y,
                   player_id, game_state, dev_data, show_dev_tools>>
    /\ Call("handle_mouse_up", None, None)
    /\ gesture' = NoGesture

handle_wheel(delta_y) ==
    LET scaled == FMul(zoom, zoom_factor(delta_y))
    IN
    /\ zoom' = clamp_zoom(scaled)
    /\ UNCHANGED <<camera_x, camera_y, is_dragging, last_mouse_x, last_mouse_y,
                   player_id, game_state, dev_data, show_dev_tools,
                   selection_start, selection_end, selected_troops>>
    /\ Call("handle_wheel", Some(delta_y), None)
    /\ gesture' = NoGesture

\* the first player of the snapshot with the given id (Option)
RECURSIVE find_player(_, _)
find_player(players, pid) ==
    IF players = <<>> THEN None
    ELSE IF Head(players).id = pid THEN Some(Head(players).position)
    ELSE find_player(Tail(players), pid)

\* the value handle_click returns
click_result(event) ==
    IF is_dragging \/ ~IsSome(player_id) \/ ~IsSome(game_state)
    THEN None
    ELSE LET wx == world_x(event.x)
             wy == world_y(event.y)
             player_position == find_player(Unwrap(game_state).players, Unwrap(player_id))
         IN  IF IsSome(player_position)
             THEN LET position == Unwrap(player_position)
                      dx == wx - position[1]
                      dy == wy - position[2]
                  IN  Some([kind |-> "spawn",
                            position |-> array_from_tuple(position),
                            direction |-> array_from_tuple(<<dx, dy>>),
                            count |-> SpawnCount])
             ELSE None

handle_click(event) ==
    /\ UNCHANGED prog
    /\ Call("handle_click", Some(event), click_result(event))
    /\ gesture' = NoGesture

\* a right click that does not look at the selection before building the command
right_click_result_any_selection(event) ==
    IF ~IsSome(player_id) \/ ~IsSome(game_state)
    THEN None
    ELSE Some([kind |-> "move",
               target_position |-> array_from_tuple(<<world_x(event.x), world_y(event.y)>>),
               troop_ids |-> NewArray(selected_troops)])

\* the value handle_right_click returns
right_click_result(event) ==
    IF ~IsSome(player_id) \/ ~IsSome(game_state) \/ selected_troops = <<>>
    THEN None
    ELSE Some([kind |-> "move",
               target_position |-> array_from_tuple(<<world_x(event.x), world_y(event.y)>>),
               troop_ids |-> NewArray(selected_troops)])

\* a right click that empties the selection once it has issued the command
handle_right_click_consuming(event) ==
    /\ selected_troops' = IF IsSome(right_click_result(event)) THEN <<>> ELSE selected_troops
    /\ UNCHANGED <<camera_x, camera_y, zoom, is_dragging, last_mouse_x, last_mouse_y,
                   player_id, game_state, dev_data, show_dev_tools,
                   selection_start, selection_end>>
    /\ Call("handle_right_click", Some(event), right_click_result(event))
    /\ gesture' = NoGesture

handle_right_click(event) ==
    /\ UNCHANGED prog
    /\ Call("handle_right_click", Some(event), right_click_result(event))
    /\ gesture' = NoGesture

----------------------------------------------------------------------------
(* The caller: the page's event listeners and network loop.  A run of the  *)
(* caller is a sequence of handler calls.  The specifications differ in    *)
(* the inputs the caller draws from and in how often it changes the view:  *)
(*   Spec      box gestures at every point, pan gestures that begin at the *)
(*             origin, both snapshots, both players; at most MaxView wheel *)
(*             steps and pan moves.  The two diagnostics handlers, which   *)
(*             touch only dev_data and show_dev_tools, are left to the     *)
(*             other specifications.                                       *)
(*   SpecView  clicks and right clicks at every point under up to          *)
(*             MaxViewCmd view changes.                                    *)
(*   SpecKeep  the caller keeps the MoveCommand a right click returned.    *)
(*   SpecZoom  every handler, any number of wheel steps; the pointer stays *)
(*             at the canvas origin.                                       *)
(*   SpecData  every handler, every snapshot and diagnostics payload, a    *)
(*             snapshot with a repeated troop id among them; gestures that *)
(*             begin at the canvas origin.                                 *)

\* the caller keeps the command a right click returned, if it returned one
Keep == issued' = IF op' = "handle_right_click" /\ IsSome(ret') THEN ret' ELSE issued

Drop == issued' = issued

\* this step moved the camera or the zoom
ViewChanged == camera_x' # camera_x \/ camera_y' # camera_y \/ zoom' # zoom

\* at most max view changes per run
Count(max) ==
    IF ViewChanged THEN views < max /\ views' = views + 1
                   ELSE views' = views

Event(alt, p) == MouseEvent(0, alt, p[1], p[2])

AnyEvent == MouseEvent(0, FALSE, 0, 0)

\* ---- Spec ----

\* unmodified presses at every point, the pan press at the origin, a secondary press
DownEvents ==
    {Event(FALSE, p) : p \in ScreenPoints} \cup {Event(TRUE, <<0, 0>>), MouseEvent(2, FALSE, 5, 5)}

ClickEvents == {Event(FALSE, <<5, 5>>)}

SetPlayerId == \E pid \in PlayerIds : set_player_id(pid) /\ Drop /\ UNCHANGED views

UpdateGameState == \E js \in GameStatePayloads : update_game_state(js) /\ Drop /\ UNCHANGED views

MouseDown == \E e \in DownEvents : handle_mouse_down(e) /\ Drop /\ UNCHANGED views

MouseMove == \E e \in PlainEvents : handle_mouse_move(e) /\ Drop /\ Count(MaxView)

MouseUp == handle_mouse_up(AnyEvent) /\ Drop /\ UNCHANGED views

Wheel == \E d \in WheelDeltas : handle_wheel(d) /\ Drop /\ Count(MaxView)

Click == \E e \in ClickEvents : handle_click(e) /\ Drop /\ UNCHANGED views

RightClick == \E e \in ClickEvents : handle_right_click(e) /\ Drop /\ UNCHANGED views

Next ==
    \/ SetPlayerId
    \/ UpdateGameState
    \/ MouseDown
    \/ MouseMove
    \/ MouseUp
    \/ Wheel
    \/ Click
    \/ RightClick

Spec == Init /\ [][Next]_vars

\* ---- SpecView ----

ViewPayloads == {JsObject(GameStateFields, g) : g \in GameStates}

ViewDownEvents == {Event(FALSE, <<0, 0>>), Event(TRUE, <<0, 0>>)}

ViewMoveEvents == {Event(FALSE, <<5, 5>>), Event(FALSE, <<10, 10>>)}

ViewSetPlayerId == \E pid \in PlayerIds : set_player_id(pid) /\ Drop /\ UNCHANGED views

ViewUpdateGameState == \E js \in ViewPayloads : update_game_state(js) /\ Drop /\ UNCHANGED views

ViewMouseDown == \E e \in ViewDownEvents : handle_mouse_down(e) /\ Drop /\ UNCHANGED views

ViewMouseMove == \E e \in ViewMoveEvents : handle_mouse_move(e) /\ Drop /\ Count(MaxViewCmd)

ViewMouseUp == handle_mouse_up(AnyEvent) /\ Drop /\ UNCHANGED views

ViewWheel == \E d \in WheelDeltas : handle_wheel(d) /\ Drop /\ Count(MaxViewCmd)

ViewClick == \E e \in PlainEvents : handle_click(e) /\ Drop /\ UNCHANGED views

ViewRightClick == \E e \in PlainEvents : handle_right_click(e) /\ Drop /\ UNCHANGED views

NextView ==
    \/ ViewSetPlayerId
    \/ ViewUpdateGameState
    \/ ViewMouseDown
    \/ ViewMouseMove
    \/ ViewMouseUp
    \/ ViewWheel
    \/ ViewClick
    \/ ViewRightClick

SpecView == Init /\ [][NextView]_vars

\* ---- SpecKeep ----

KeepSetPlayerId == set_player_id(1) /\ Keep /\ UNCHANGED views

KeepUpdateGameState == \E js \in ViewPayloads : update_game_state(js) /\ Keep /\ UNCHANGED views

KeepMouseDown == \E e \in ViewDownEvents : handle_mouse_down(e) /\ Keep /\ UNCHANGED views

KeepMouseMove == \E e \in ViewMoveEvents : handle_mouse_move(e) /\ Keep /\ Count(MaxView)

KeepMouseUp == handle_mouse_up(AnyEvent) /\ Keep /\ UNCHANGED views

KeepWheel == \E d \in WheelDeltas : handle_wheel(d) /\ Keep /\ Count(MaxView)

KeepClick == \E e \in ClickEvents : handle_click(e) /\ Keep /\ UNCHANGED views

KeepRightClick == \E e \in PlainEvents : handle_right_click(e) /\ Keep /\ UNCHANGED views

NextKeep ==
    \/ KeepSetPlayerId
    \/ KeepUpdateGameState
    \/ KeepMouseDown
    \/ KeepMouseMove
    \/ KeepMouseUp
    \/ KeepWheel
    \/ KeepClick
    \/ KeepRightClick

SpecKeep == Init /\ [][NextKeep]_vars

\* ---- SpecZoom ----

ZoomPayloads == {JsObject(GameStateFields, GameStateA),
                 JsObject(GameStateFields \ {"troops"}, GameStateB)}

ZoomSetPlayerId == set_player_id(1) /\ Drop /\ UNCHANGED views

ZoomUpdateGameState == \E js \in ZoomPayloads : update_game_state(js) /\ Drop /\ UNCHANGED views

ZoomUpdateDevData == \E js \in DevDataPayloads : update_dev_data(js) /\ Drop /\ UNCHANGED views

ZoomToggleDevTools == toggle_dev_tools /\ Drop /\ UNCHANGED views

ZoomMouseDown == \E e \in ViewDownEvents : handle_mouse_down(e) /\ Drop /\ UNCHANGED views

ZoomMouseMove == handle_mouse_move(AnyEvent) /\ Drop /\ UNCHANGED views

ZoomMouseUp == handle_mouse_up(AnyEvent) /\ Drop /\ UNCHANGED views

ZoomWheel == \E d \in WheelDeltas : handle_wheel(d) /\ Drop /\ UNCHANGED views

ZoomClick == \E e \in ClickEvents : handle_click(e) /\ Drop /\ UNCHANGED views

ZoomRightClick == \E e \in ClickEvents : handle_right_click(e) /\ Drop /\ UNCHANGED views

NextZoom ==
    \/ ZoomSetPlayerId
    \/ ZoomUpdateGameState
    \/ ZoomUpdateDevData
    \/ ZoomToggleDevTools
    \/ ZoomMouseDown
    \/ ZoomMouseMove
    \/ ZoomMouseUp
    \/ ZoomWheel
    \/ ZoomClick
    \/ ZoomRightClick

SpecZoom == Init /\ [][NextZoom]_vars

\* ---- SpecData ----

DataDevPayloads ==
    {JsObject(DevDataFields, DevDataA), JsObject(DevDataFields, DevDataB),
     JsObject(DevDataFields \ {"fps"}, DevDataB)}

DataSetPlayerId == set_player_id(1) /\ Drop /\ UNCHANGED views

DataPayloads == GameStatePayloads \cup {JsObject(GameStateFields, GameStateC)}

DataUpdateGameState == \E js \in DataPayloads : update_game_state(js) /\ Drop /\ UNCHANGED views

DataUpdateDevData == \E js \in DataDevPayloads : update_dev_data(js) /\ Drop /\ UNCHANGED views

DataToggleDevTools == toggle_dev_tools /\ Drop /\ UNCHANGED views

DataMouseDown == \E e \in ViewDownEvents : handle_mouse_down(e) /\ Drop /\ UNCHANGED views

DataMouseMove == \E e \in ViewMoveEvents : handle_mouse_move(e) /\ Drop /\ Count(MaxView)

DataMouseUp == handle_mouse_up(AnyEvent) /\ Drop /\ UNCHANGED views

DataWheel == \E d \in WheelDeltas : handle_wheel(d) /\ Drop /\ Count(MaxView)

DataClick == \E e \in ClickEvents : handle_click(e) /\ Drop /\ UNCHANGED views

DataRightClick == \E e \in ClickEvents : handle_right_click(e) /\ Drop /\ UNCHANGED views

NextData ==
    \/ DataSetPlayerId
    \/ DataUpdateGameState
    \/ DataUpdateDevData
    \/ DataToggleDevTools
    \/ DataMouseDown
    \/ DataMouseMove
    \/ DataMouseUp
    \/ DataWheel
    \/ DataClick
    \/ DataRightClick

SpecData == Init /\ [][NextData]_vars

----------------------------------------------------------------------------
(* Vocabulary of the properties, written from the specification's terms    *)

\* screenToWorld(sx, sy): wx = sx / zoom + offsetX, wy = sy / zoom + offsetY
ScreenToWorld(sx, sy) ==
    <<Round(F(sx) * Unit, zoom) + camera_x, Round(F(sy) * Unit, zoom) + camera_y>>

\* the box a PointerUp found: corners and area (in 1/Unit^2)
HadBox == IsSome(pre.start) /\ IsSome(pre.end)

BoxMinX == Min2(pre.start[1][1], pre.end[1][1])

BoxMaxX == Max2(pre.start[1][1], pre.end[1][1])

BoxMinY == Min2(pre.start[1][2], pre.end[1][2])

BoxMaxY == Max2(pre.start[1][2], pre.end[1][2])

BoxArea == (BoxMaxX - BoxMinX) * (BoxMaxY - BoxMinY)

AreaThreshold == 25 * Unit * Unit

AfterUp == op = "handle_mouse_up"

\* the PointerUp that just ran found a drag box of area > 25.0 / <= 25.0
CommittedLargeBox == AfterUp /\ HadBox /\ BoxArea > AreaThreshold

CommittedSmallBox == AfterUp /\ HadBox /\ BoxArea <= AreaThreshold

Units == IF IsSome(game_state) THEN Unwrap(game_state).troops ELSE <<>>

UnitIndices == 1..Len(Units)

InBox(u) ==
    /\ BoxMinX <= u.position[1] /\ u.position[1] <= BoxMaxX
    /\ BoxMinY <= u.position[2] /\ u.position[2] <= BoxMaxY

SelectedIds == {selected_troops[i] : i \in 1..Len(selected_troops)}

IdsOf(seq) == {seq[i] : i \in 1..Len(seq)}

\* some unit of the snapshot whose id is in sel lies within 10.0 of point
HitTestSelected(point, sel) ==
    \E i \in UnitIndices :
        /\ Units[i].id \in IdsOf(sel)
        /\ (point[1] - Units[i].position[1]) * (point[1] - Units[i].position[1])
           + (point[2] - Units[i].position[2]) * (point[2] - Units[i].position[2])
           < 100 * Unit * Unit

----------------------------------------------------------------------------
(* C1.  In every reachable state the viewport zoom lies in [0.2, 5.0],     *)
(* whatever wheel deltas, pointer events, clicks, bindings and snapshots   *)
(* came before.                                                            *)

C1_ZoomInRange == 2 * Unit <= 10 * zoom /\ zoom <= 5 * Unit

\* wheel steps have driven the zoom onto the lower end of the range
C1_Witness == op = "handle_wheel" /\ 10 * zoom = 2 * Unit

(* C2.  After a PointerUp that found a drag box of area greater than 25.0, *)
(* the selection is exactly the ids of the snapshot's units owned by the   *)
(* bound player and lying in the box, bounds included; no other id that    *)
(* was selected before remains.                                            *)

C2_LargeBoxSelects ==
    CommittedLargeBox =>
        SelectedIds = {Units[i].id : i \in {j \in UnitIndices :
                            /\ IsSome(player_id)
                            /\ Units[j].player_id = Unwrap(player_id)
                            /\ InBox(Units[j])}}

\* a commit that dropped an id selected before, kept a unit on the box's
\* edge and passed over one of the player's units outside the box
C2_Witness ==
    /\ CommittedLargeBox
    /\ selected_troops # <<>>
    /\ \E id \in IdsOf(pre.sel) : id \notin SelectedIds
    /\ \E i \in UnitIndices :
          /\ Units[i].id \in SelectedIds
          /\ Units[i].position[1] \in {BoxMinX, BoxMaxX}

(* C3.  As claimed: after any PointerUp that found a drag box, every       *)
(* selected id the snapshot lists is the id of a unit owned by the bound   *)
(* player.                                                                 *)

OwnSelection ==
    \A id \in SelectedIds :
        (\E i \in UnitIndices : Units[i].id = id)
            => \E i \in UnitIndices :
                  /\ Units[i].id = id
                  /\ IsSome(player_id)
                  /\ Units[i].player_id = Unwrap(player_id)

C3_AnyCommitOwnUnits == (AfterUp /\ HadBox) => OwnSelection

(* C3, amended.  After a PointerUp that found a drag box of area greater   *)
(* than 25.0, every selected id the snapshot lists is the id of a unit     *)
(* owned by the bound player.                                              *)

C3_LargeBoxOwnUnits == CommittedLargeBox => OwnSelection

\* a box that held another player's unit and selected only the player's own
C3_Witness ==
    /\ CommittedLargeBox
    /\ selected_troops # <<>>
    /\ \E i \in UnitIndices :
          /\ InBox(Units[i])
          /\ Units[i].player_id # Unwrap(player_id)
          /\ Units[i].id \notin SelectedIds

(* C4.  After a PointerUp that found a drag box of area at most 25.0, the  *)
(* selected ids are those from immediately before the PointerUp.           *)

C4_SmallBoxKeepsSelection == CommittedSmallBox => selected_troops = pre.sel

\* a box of area exactly 25.0 with a selected unit of the player inside
C4_Witness ==
    /\ CommittedSmallBox
    /\ BoxArea = AreaThreshold
    /\ selected_troops # <<>>
    /\ \E i \in UnitIndices :
          /\ InBox(Units[i])
          /\ IsSome(player_id)
          /\ Units[i].player_id = Unwrap(player_id)

\* a box of area zero laid on a unit of the player, nothing selected
C4_WitnessZeroArea ==
    /\ CommittedSmallBox
    /\ BoxArea = 0
    /\ selected_troops = <<>>
    /\ \E i \in UnitIndices :
          /\ InBox(Units[i])
          /\ IsSome(player_id)
          /\ Units[i].player_id = Unwrap(player_id)

(* C5.  As claimed: after an unmodified primary PointerDown, PointerMoves  *)
(* and a PointerUp whose box has area at most 25.0, the selection is       *)
(* empty.                                                                  *)

BoxGestureEnded == CommittedSmallBox /\ pre.gesture.kind = "box"

C5_SmallBoxEmpty == BoxGestureEnded => selected_troops = <<>>

(* C5, amended.  After such a gesture the selection is empty, unless the   *)
(* PointerDown's world point was within 10.0 of a unit that was selected,  *)
(* in which case it is the selection from before the PointerDown.          *)

C5_SmallBoxEmptyOrKept ==
    BoxGestureEnded =>
        selected_troops = IF HitTestSelected(pre.start[1], pre.gesture.sel)
                          THEN pre.gesture.sel
                          ELSE <<>>

\* a gesture that began away from the selected units and emptied the selection
C5_Witness ==
    /\ BoxGestureEnded
    /\ pre.gesture.sel # <<>>
    /\ selected_troops = <<>>
    /\ \E i \in UnitIndices : InBox(Units[i])

(* C6.  The panning flag and an active drag box are never both set.        *)

C6_NeverPanningAndBoxSelecting == ~(is_dragging /\ IsSome(selection_start))

(* C7.  After every PointerUp the machine is Idle: the panning flag is     *)
(* false and dragStart and dragEnd are both absent.                        *)

C7_IdleAfterUp ==
    AfterUp => ~is_dragging /\ selection_start = None /\ selection_end = None

\* a PointerUp that ended a pan gesture while a drag box was still open
C7_Witness == AfterUp /\ HadBox /\ pre.gesture.kind = "pan"

\* a PointerUp that ended a pan gesture with no drag box
C7_WitnessPan == AfterUp /\ ~HadBox /\ pre.gesture.kind = "pan"

(* C8.  onClick returns a command if and only if the machine is not        *)
(* panning, a player id is bound, a snapshot is present and the snapshot   *)
(* holds a player with the bound id; the command's originPosition is that  *)
(* player's position, its direction is screenToWorld(click) minus that     *)
(* position, component by component, and its count is 15.                  *)

Players == IF IsSome(game_state) THEN Unwrap(game_state).players ELSE <<>>

LocalPlayers ==
    {i \in 1..Len(Players) : IsSome(player_id) /\ Players[i].id = Unwrap(player_id)}

\* the snapshot's entry for the bound player (the first, should there be several)
LocalPlayer == Players[CHOOSE i \in LocalPlayers : \A j \in LocalPlayers : i <= j]

ClickPoint == ScreenToWorld(Unwrap(arg).x, Unwrap(arg).y)

C8_ClickSpawns ==
    op = "handle_click" =>
        IF ~is_dragging /\ IsSome(player_id) /\ IsSome(game_state) /\ LocalPlayers # {}
        THEN ret = Some([kind |-> "spawn",
                         position |-> LocalPlayer.position,
                         direction |-> <<ClickPoint[1] - LocalPlayer.position[1],
                                         ClickPoint[2] - LocalPlayer.position[2]>>,
                         count |-> 15])
        ELSE ret = None

\* a spawn from a player away from the origin, under a zoomed and panned view
C8_Witness ==
    /\ op = "handle_click"
    /\ IsSome(ret)
    /\ zoom # Unit
    /\ camera_x # 0
    /\ Unwrap(ret).position # <<0, 0>>
    /\ Unwrap(ret).direction # <<0, 0>>

\* a click that returned nothing because the snapshot lacks the bound player
C8_WitnessAbsentPlayer ==
    /\ op = "handle_click"
    /\ ret = None
    /\ ~is_dragging /\ IsSome(player_id) /\ IsSome(game_state)

(* C9.  onRightClick returns no command when no player id is bound, no     *)
(* snapshot is present or the selection is empty; otherwise a MoveCommand  *)
(* whose targetPosition is screenToWorld(click) and whose unitIds are the  *)
(* selected ids in selection order.                                        *)

C9_RightClickMoves ==
    op = "handle_right_click" =>
        IF ~IsSome(player_id) \/ ~IsSome(game_state) \/ selected_troops = <<>>
        THEN ret = None
        ELSE /\ IsSome(ret)
             /\ Unwrap(ret).kind = "move"
             /\ Unwrap(ret).target_position = ClickPoint
             /\ ArrayElems(Unwrap(ret).troop_ids) = selected_troops

\* a move of two units under a zoomed and panned view
C9_Witness ==
    /\ op = "handle_right_click"
    /\ IsSome(ret)
    /\ Len(selected_troops) = 2
    /\ zoom # Unit
    /\ camera_x # 0

(* C10.  The unitIds and targetPosition of a MoveCommand the caller holds  *)
(* are not changed by any later handler call.                              *)

\* what the caller reads from the command it holds
HeldCommand ==
    IF IsSome(issued)
    THEN Some([target_position |-> Unwrap(issued).target_position,
               unit_ids |-> ArrayElems(Unwrap(issued).troop_ids)])
    ELSE None

ReplacesHeld == op' = "handle_right_click" /\ IsSome(ret')

C10_CommandIsCopy ==
    [][(IsSome(issued) /\ ~ReplacesHeld) => HeldCommand' = HeldCommand]_vars

\* the selection has changed since the held command was built
C10_Witness ==
    /\ IsSome(issued)
    /\ op # "handle_right_click"
    /\ Unwrap(HeldCommand).unit_ids # selected_troops
    /\ selected_troops # <<>>

(* C11.  ingestSnapshot and ingestDiagnostics are all-or-nothing: a payload *)
(* that fails to deserialize returns an error and leaves the snapshot, the *)
(* diagnostics and every other field as they were; a payload that          *)
(* deserializes returns no error and makes its value the stored one, that  *)
(* value alone, every other field as it was.                               *)

\* the payload has every property the struct requires
Deserializes(js, fields) == fields \subseteq js.fields

IngestedSnapshot ==
    IF Deserializes(Unwrap(arg'), GameStateFields)
    THEN /\ ret' = None
         /\ game_state' = Some(Unwrap(arg').value)
         /\ UNCHANGED <<camera_x, camera_y, zoom, is_dragging, last_mouse_x, last_mouse_y,
                        player_id, dev_data, show_dev_tools,
                        selection_start, selection_end, selected_troops>>
    ELSE /\ IsSome(ret')
         /\ UNCHANGED prog

IngestedDiagnostics ==
    IF Deserializes(Unwrap(arg'), DevDataFields)
    THEN /\ ret' = None
         /\ dev_data' = Some(Unwrap(arg').value)
         /\ UNCHANGED <<camera_x, camera_y, zoom, is_dragging, last_mouse_x, last_mouse_y,
                        player_id, game_state, show_dev_tools,
                        selection_start, selection_end, selected_troops>>
    ELSE /\ IsSome(ret')
         /\ UNCHANGED prog

C11_AllOrNothing ==
    [][/\ op' = "update_game_state" => IngestedSnapshot
       /\ op' = "update_dev_data" => IngestedDiagnostics]_vars

\* a snapshot without its troops was rejected while another snapshot, a
\* selection and diagnostics were stored
C11_Witness ==
    /\ op = "update_game_state"
    /\ IsSome(ret)
    /\ game_state = Some(GameStateA)
    /\ Unwrap(arg).value # GameStateA
    /\ selected_troops # <<>>
    /\ IsSome(dev_data)

\* a snapshot replaced the one the selection was made in
C11_WitnessReplaced ==
    /\ op = "update_game_state"
    /\ ret = None
    /\ game_state = Some(GameStateB)
    /\ Contains(selected_troops, 1)

\* diagnostics were rejected while others were stored
C11_WitnessDiagnostics ==
    /\ op = "update_dev_data"
    /\ IsSome(ret)
    /\ dev_data = Some(DevDataA)
    /\ Unwrap(arg).value # DevDataA

(* C12.  Whatever the input state, onWheel(deltaY) sets the zoom to        *)
(* clamp(zoom * 0.9, 0.2, 5.0) when deltaY > 0 and to                      *)
(* clamp(zoom * 1.1, 0.2, 5.0) otherwise, deltaY = 0 included, and changes *)
(* nothing else; a positive step then a negative step from 1.0 give 0.99.  *)

Clamp(z, lo, hi) == IF z < lo THEN lo ELSE IF z > hi THEN hi ELSE z

\* zoom * 0.9 and zoom * 1.1, rounded to the nearest 1/Unit
ZoomedOut == Round(zoom * 9, 10)

ZoomedIn == Round(zoom * 11, 10)

C12_WheelScalesZoomOnly ==
    [][op' = "handle_wheel" =>
          /\ zoom' = IF Unwrap(arg') > 0 THEN Clamp(ZoomedOut, Unit \div 5, 5 * Unit)
                                        ELSE Clamp(ZoomedIn, Unit \div 5, 5 * Unit)
          /\ (zoom = (9 * Unit) \div 10 /\ Unwrap(arg') <= 0) => zoom' = (99 * Unit) \div 100
          /\ UNCHANGED <<camera_x, camera_y, is_dragging, last_mouse_x, last_mouse_y,
                         player_id, game_state, dev_data, show_dev_tools,
                         selection_start, selection_end, selected_troops>>]_vars

\* a negative step brought the zoom to 0.99 while panning
C12_Witness ==
    /\ op = "handle_wheel"
    /\ Unwrap(arg) < 0
    /\ zoom = (99 * Unit) \div 100
    /\ is_dragging

\* a step of deltaY = 0 zoomed in while a drag box was open
C12_WitnessZeroDelta ==
    /\ op = "handle_wheel"
    /\ Unwrap(arg) = 0
    /\ zoom > Unit
    /\ ~is_dragging
    /\ IsSome(selection_start)
    /\ IsSome(game_state)

\* a positive step was held at the lower end of the range
C12_WitnessClamped ==
    /\ op = "handle_wheel"
    /\ Unwrap(arg) > 0
    /\ zoom = Unit \div 5

(* C13.  A primary-button PointerDown without the pan modifier sets        *)
(* dragStart and dragEnd to screenToWorld(pointer position) and the        *)
(* panning flag to false; it empties the selection if and only if          *)
(* hitTestSelected is false for that world point, and otherwise leaves the *)
(* selected ids as they were.                                              *)

PressPoint == ScreenToWorld(Unwrap(arg').x, Unwrap(arg').y)

UnmodifiedPrimaryDown ==
    /\ op' = "handle_mouse_down"
    /\ Unwrap(arg').button = 0
    /\ ~Unwrap(arg').alt_key

C13_DownBeginsBox ==
    [][UnmodifiedPrimaryDown =>
          /\ selection_start' = Some(PressPoint)
          /\ selection_end' = Some(PressPoint)
          /\ ~is_dragging'
          /\ selected_troops' = IF HitTestSelected(PressPoint, selected_troops)
                                THEN selected_troops
                                ELSE <<>>]_vars

\* a press on a selected unit, under a changed view, kept the selection
C13_Witness ==
    /\ op = "handle_mouse_down"
    /\ gesture.kind = "box"
    /\ selected_troops # <<>>
    /\ selected_troops = gesture.sel
    /\ views > 0

\* a press away from the selected units emptied the selection
C13_WitnessCleared ==
    /\ op = "handle_mouse_down"
    /\ gesture.kind = "box"
    /\ gesture.sel # <<>>
    /\ selected_troops = <<>>
    /\ Unwrap(selection_start) # <<0, 0>>

(* C14.  As claimed: hitTestSelected(worldPoint) is true if and only if    *)
(* some unit of the current snapshot whose id is in the selection lies     *)
(* within distance 10.0 of worldPoint, a unit at distance exactly 10.0     *)
(* included; selected ids absent from the snapshot never make it true, and *)
(* it is false when no snapshot is present.                                *)

SquaredDistance(point, u) ==
    (point[1] - u.position[1]) * (point[1] - u.position[1])
    + (point[2] - u.position[2]) * (point[2] - u.position[2])

\* some unit of the snapshot whose id is in sel lies at most 10.0 from point
HitTestSelectedInclusive(point, sel) ==
    \E i \in UnitIndices :
        /\ Units[i].id \in IdsOf(sel)
        /\ SquaredDistance(point, Units[i]) <= 100 * Unit * Unit

\* world points the test is asked about in every reachable state
ProbePoints == {<<F(p[1]), F(p[2])>> : p \in ScreenPoints} \cup {<<F(16), F(8)>>}

\* an unmodified primary PointerDown has just run the test on its world
\* point; the selection it leaves is non-empty exactly when the test was true
AfterPress == op = "handle_mouse_down" /\ gesture.kind = "box"

PressHit == selected_troops # <<>>

C14_HitWithinRadiusInclusive ==
    /\ \A p \in ProbePoints :
          is_clicking_selected_troop(p[1], p[2]) = HitTestSelectedInclusive(p, selected_troops)
    /\ AfterPress =>
          PressHit = HitTestSelectedInclusive(Unwrap(selection_start), gesture.sel)

(* C14, amended.  hitTestSelected(worldPoint) is true if and only if some  *)
(* unit of the current snapshot whose id is in the selection lies at a     *)
(* distance of less than 10.0 from worldPoint, a unit at distance exactly  *)
(* 10.0 not included; selected ids absent from the snapshot never make it  *)
(* true, and it is false when no snapshot is present.                      *)

C14_HitInsideRadius ==
    /\ \A p \in ProbePoints :
          is_clicking_selected_troop(p[1], p[2]) = HitTestSelected(p, selected_troops)
    /\ AfterPress =>
          PressHit = HitTestSelected(Unwrap(selection_start), gesture.sel)

\* a press exactly 10.0 away from the nearest selected unit missed it
C14_Witness ==
    /\ AfterPress
    /\ gesture.sel # <<>>
    /\ ~PressHit
    /\ HitTestSelectedInclusive(Unwrap(selection_start), gesture.sel)

\* a press missed a selection one of whose ids is absent from the snapshot
C14_WitnessStaleId ==
    /\ AfterPress
    /\ ~PressHit
    /\ \E id \in IdsOf(gesture.sel) : \A i \in UnitIndices : Units[i].id # id

(* C15.  Panning never touches the selection: after a primary PointerDown *)
(* with the pan modifier held, any number of PointerMoves and the          *)
(* PointerUp, the selected ids are those from before the PointerDown.      *)

PanGestureEnded == AfterUp /\ pre.gesture.kind = "pan"

C15_PanKeepsSelection == PanGestureEnded => selected_troops = pre.gesture.sel

(* C16.  A PointerMove in Panning at screen position (x, y) sets offsetX   *)
(* to offsetX - (x - lastX) / zoom and offsetY to offsetY - (y - lastY) /  *)
(* zoom, with the zoom current at the move, then records (x, y) as the     *)
(* last position; it changes neither the zoom, the drag box nor the        *)
(* selection.                                                              *)

PanMove == op' = "handle_mouse_move" /\ is_dragging

C16_PanMoveShiftsOffset ==
    [][PanMove =>
          /\ camera_x' = camera_x - Round((F(Unwrap(arg').x) - F(last_mouse_x)) * Unit, zoom)
          /\ camera_y' = camera_y - Round((F(Unwrap(arg').y) - F(last_mouse_y)) * Unit, zoom)
          /\ last_mouse_x' = Unwrap(arg').x
          /\ last_mouse_y' = Unwrap(arg').y
          /\ UNCHANGED <<zoom, selection_start, selection_end, selected_troops>>]_vars

\* a pan move under a zoom other than 1.0 shifted the offset
C16_Witness ==
    /\ op = "handle_mouse_move"
    /\ is_dragging
    /\ zoom # Unit
    /\ camera_x # 0
    /\ last_mouse_x # 0

\* a pan move while a drag box was open over a selection
C16_WitnessOpenBox ==
    /\ op = "handle_mouse_move"
    /\ is_dragging
    /\ camera_x # 0
    /\ IsSome(selection_start)
    /\ selected_troops # <<>>

(* C17.  A Click that ends a pan gesture produces no command: in the event *)
(* order PointerDown with the pan modifier, PointerMoves, PointerUp,       *)
(* Click, the Click returns no SpawnCommand, even when a player id is      *)
(* bound and the snapshot holds that player.                               *)

C17_NoSpawnAfterPan ==
    [][(PanGestureEnded /\ op' = "handle_click") => ret' = None]_vars

(* C18.  The selected ids change only in an unmodified primary PointerDown, *)
(* which empties them, and in a PointerUp that commits a box; every other  *)
(* operation leaves them as they were, so a selected id that a later       *)
(* snapshot no longer lists stays selected and is carried by the next      *)
(* MoveCommand.                                                            *)

CommitsBox == op' = "handle_mouse_up" /\ IsSome(selection_start) /\ IsSome(selection_end)

C18_SelectionChangesOnlyByGesture ==
    [][/\ selected_troops' # selected_troops =>
             \/ UnmodifiedPrimaryDown /\ selected_troops' = <<>>
             \/ CommitsBox
       /\ (op' = "handle_right_click" /\ IsSome(ret')) =>
             ArrayElems(Unwrap(ret').troop_ids) = selected_troops]_vars

\* a MoveCommand carries an id that the current snapshot no longer lists
C18_Witness ==
    /\ op = "handle_right_click"
    /\ IsSome(ret)
    /\ \E id \in IdsOf(ArrayElems(Unwrap(ret).troop_ids)) :
          \A i \in UnitIndices : Units[i].id # id
    /\ IsSome(dev_data)
    /\ ~show_dev_tools

(* C19.  Building a command keeps no history: onClick and onRightClick,    *)
(* whether or not they return a command, leave offset, zoom, panning flag, *)
(* last pointer position, drag box, selection, bound player id and         *)
(* snapshot as they were, so the same event repeated in the same state     *)
(* returns an equal command.                                               *)

CommandEvent == op' \in {"handle_click", "handle_right_click"}

\* what the caller reads from a returned command
CommandRead(r) ==
    IF IsSome(r) /\ Unwrap(r).kind = "move"
    THEN Some([kind |-> "move",
               target_position |-> Unwrap(r).target_position,
               unit_ids |-> ArrayElems(Unwrap(r).troop_ids)])
    ELSE r

C19_CommandsKeepNoHistory ==
    [][CommandEvent =>
          /\ UNCHANGED <<camera_x, camera_y, zoom, is_dragging, last_mouse_x, last_mouse_y,
                         selection_start, selection_end, selected_troops,
                         player_id, game_state>>
          /\ (op = op' /\ arg = arg') => CommandRead(ret') = CommandRead(ret)]_vars

\* a MoveCommand returned while panning with a drag box open
C19_Witness ==
    /\ op = "handle_right_click"
    /\ IsSome(ret)
    /\ is_dragging
    /\ IsSome(selection_start)
    /\ camera_x # 0

\* a click that returned a SpawnCommand under a changed zoom, a selection held
C19_WitnessSpawn ==
    /\ op = "handle_click"
    /\ IsSome(ret)
    /\ zoom # Unit
    /\ selected_troops # <<>>

(* C20.  selectedIds is a set: in every reachable state no unit id occurs  *)
(* more than once in the selected ids, nor in the unitIds of a returned    *)
(* MoveCommand.                                                            *)

Distinct(seq) == \A i, j \in 1..Len(seq) : i # j => seq[i] # seq[j]

C20_SelectedIdsDistinct ==
    /\ Distinct(selected_troops)
    /\ (op = "handle_right_click" /\ IsSome(ret)) =>
           Distinct(ArrayElems(Unwrap(ret).troop_ids))

(* C21.  In every reachable state dragStart is present if and only if     *)
(* dragEnd is present: PointerDown sets the two together, PointerUp clears *)
(* the two together, and PointerMove sets dragEnd only while dragStart is  *)
(* present.                                                                *)

BothOrNeither == IsSome(selection_start) <=> IsSome(selection_end)

C21_DragEndsTogether ==
    /\ [](BothOrNeither)
    /\ [][/\ IsSome(selection_start') # IsSome(selection_start) =>
                 \/ UnmodifiedPrimaryDown /\ selection_end' = selection_start'
                 \/ op' = "handle_mouse_up" /\ selection_end' = None
          /\ (op' = "handle_mouse_move" /\ selection_end' # selection_end) =>
                 IsSome(selection_start) /\ selection_start' = selection_start]_vars

\* a move has taken dragEnd away from dragStart while a player was bound
C21_Witness ==
    /\ op = "handle_mouse_move"
    /\ IsSome(selection_start)
    /\ IsSome(selection_end)
    /\ selection_end # selection_start
    /\ IsSome(player_id)

\* a move outside every gesture left both ends absent
C21_WitnessIdleMove ==
    /\ op = "handle_mouse_move"
    /\ Unwrap(arg).x # 0
    /\ selection_start = None
    /\ selection_end = None
    /\ ~is_dragging

(* C22.  In every reachable state a non-empty selection implies that a    *)
(* player id is bound and a snapshot is present: neither is ever unset     *)
(* once set, and ids enter the selection only in a commit that requires    *)
(* both.  Hence onRightClick returns a command exactly when the selection  *)
(* is non-empty.                                                           *)

C22_SelectionImpliesContext ==
    /\ [](selected_troops # <<>> => IsSome(player_id) /\ IsSome(game_state))
    /\ [](op = "handle_right_click" => (IsSome(ret) <=> selected_troops # <<>>))
    /\ [][/\ IsSome(player_id) => IsSome(player_id')
          /\ IsSome(game_state) => IsSome(game_state')
          /\ (\E id \in IdsOf(selected_troops') : id \notin IdsOf(selected_troops)) =>
                 /\ CommitsBox
                 /\ IsSome(player_id)
                 /\ IsSome(game_state)]_vars

\* a box of area greater than 25.0 was committed over the snapshot's units
\* with no player bound, and selected nothing
C22_Witness ==
    /\ CommittedLargeBox
    /\ ~IsSome(player_id)
    /\ IsSome(game_state)
    /\ \E i \in UnitIndices : InBox(Units[i])
    /\ selected_troops = <<>>

\* a right click with player and snapshot bound returned nothing
C22_WitnessEmptySelection ==
    /\ op = "handle_right_click"
    /\ ret = None
    /\ IsSome(player_id)
    /\ IsSome(game_state)

\* a right click returned a command after the player was bound again and the
\* snapshot replaced
C22_WitnessCommand ==
    /\ op = "handle_right_click"
    /\ IsSome(ret)
    /\ \E id \in SelectedIds : \A i \in UnitIndices : Units[i].id # id

====
